---- MODULE Spec2Model ----
(***************************************************************************)
(* Model of VisualizationSubnode                                           *)
(* (modules/perception/obstacle/onboard/visualization_subnode.cc):         *)
(* InitInternal / InitStream resolve the shared stores and the event       *)
(* identifiers, ProcEvents runs one dispatch cycle over sub_meta_events_,  *)
(* SubscribeEvents reads the event bus, GetFrameData merges one event into *)
(* the frame content, and the frame visualizer is initialised lazily and   *)
(* rendered for every event of the driving kind.                           *)
(***************************************************************************)
EXTENDS Integers, Sequences, FiniteSets, TLC

\* ------------------------------------------------------------------ bounds
\* Events a run hands to ProcEvents: published on the bus, or pushed after a
\* failed blocking Subscribe.
MaxEvents == 2

\* ------------------------------------------------------- values and domains
Timestamps == 1..MaxEvents   \* the n-th event of a run carries timestamp n
Malformed == "#malformed"
RadarDeviceIds == {"radar_front", "radar_rear"}
OtherDeviceIds == {"camera"}
QueueIds == 1..5

ReserveKeys == {"vis_driven_event_id", "radar_event_id", "camera_event_id",
                "cipv_event_id", "fusion_event_id", "motion_event_id"}
NoField == "<absent>"

SharedDataNames == {"RadarObjectData", "CameraObjectData", "CIPVObjectData",
                    "FusionSharedData", "CameraSharedData"}
VisualizerName == "FrameVisualizer"

\* A payload slot of the frame content that was never set.
NoPayload == [t |-> -1, key |-> <<"", -1>>]

DefaultContent ==
  [image |-> NoPayload, camera |-> NoPayload, radar |-> NoPayload,
   fusion |-> NoPayload, timestamp |-> -1]

NoGets == [n \in SharedDataNames |-> 0]

\* atoi on the value strings the reserve field may carry.
Atoi(s) ==
  CASE s = "1" -> 1
    [] s = "2" -> 2
    [] s = "3" -> 3
    [] s = "4" -> 4
    [] s = "5" -> 5
    [] OTHER -> 0

\* ------------------------------------------------------------- deployments
\* A deployment is the reserve string of the subnode (as the field map
\* ParseReserveField yields, or a string that does not parse) together with
\* the sub_meta_events_ list of its DAG entry.
Fields(v, r, c, p, f, m) ==
  [k \in ReserveKeys |->
     CASE k = "vis_driven_event_id" -> v
       [] k = "radar_event_id" -> r
       [] k = "camera_event_id" -> c
       [] k = "cipv_event_id" -> p
       [] k = "fusion_event_id" -> f
       [] k = "motion_event_id" -> m]

RadarFlags == {"show_radar_objects"}
CameraFlags == {"show_camera_objects", "show_camera_objects2d",
                "show_camera_parsing"}
FusionFlags == {"show_fused_objects"}
FlagNames == RadarFlags \cup CameraFlags \cup FusionFlags

\* toggles: the display flags the kinds subscribed in the deployment read;
\* a run takes any setting of these and leaves the others off. The code
\* reads show_camera_objects and show_camera_objects2d only in the
\* disjunction with show_camera_parsing, so each camera deployment varies one
\* of the two.
Deployments ==
  { \* radar is drained, then driving, which shares the fusion identifier
    [parses |-> TRUE, map |-> Fields("1", "2", "3", "4", "1", NoField),
     sub |-> <<2, 1>>, toggles |-> RadarFlags \cup FusionFlags],
    \* cipv is drained, then driving, which shares the camera identifier
    [parses |-> TRUE, map |-> Fields("1", "2", "1", "3", "4", "5"),
     sub |-> <<3, 1>>,
     toggles |-> {"show_camera_objects", "show_camera_parsing"}],
    \* camera is drained, then driving, which shares the cipv identifier
    [parses |-> TRUE, map |-> Fields("1", "2", "3", "1", "4", NoField),
     sub |-> <<3, 1>>,
     toggles |-> {"show_camera_objects2d", "show_camera_parsing"}],
    \* fusion is drained, then driving, which shares the radar identifier
    [parses |-> TRUE, map |-> Fields("1", "1", "2", "3", "5", NoField),
     sub |-> <<5, 1>>, toggles |-> RadarFlags \cup FusionFlags],
    \* driving has an identifier of its own and comes first; motion has the
    \* identifier of radar
    [parses |-> TRUE, map |-> Fields("1", "2", "3", "4", "5", "2"),
     sub |-> <<1, 2>>, toggles |-> RadarFlags],
    \* the fusion identifier is missing
    [parses |-> TRUE, map |-> Fields("1", "2", "3", "4", NoField, "5"),
     sub |-> <<2, 1>>, toggles |-> {}],
    \* the driving, the radar, the camera, the cipv identifier is missing
    [parses |-> TRUE, map |-> Fields(NoField, "2", "3", "4", "5", "1"),
     sub |-> <<2, 1>>, toggles |-> {}],
    [parses |-> TRUE, map |-> Fields("1", NoField, "3", "4", "5", "2"),
     sub |-> <<2, 1>>, toggles |-> {}],
    [parses |-> TRUE, map |-> Fields("1", "2", NoField, "4", "5", "3"),
     sub |-> <<2, 1>>, toggles |-> {}],
    [parses |-> TRUE, map |-> Fields("1", "2", "3", NoField, "5", "4"),
     sub |-> <<2, 1>>, toggles |-> {}],
    \* the reserve string does not parse
    [parses |-> FALSE, map |-> Fields("1", "2", "3", "4", "5", NoField),
     sub |-> <<2, 1>>, toggles |-> {}] }

VARIABLES
  reserve_,              \* [parses, map]: the reserve string of the subnode
  sub_meta_events_,      \* sequence of subscribed event identifiers
  FLAGS,                 \* [FlagNames -> BOOLEAN]
  ids,                   \* the *_event_id_ members, set by InitStream
  shared,                \* [SharedDataNames -> BOOLEAN]: pointer resolved
  frame_visualizer_,     \* BOOLEAN: visualizer instance resolved
  pc,                    \* "constructed", "init_failed", "idle", "sub", "proc"
  queue,                 \* event bus: [QueueIds -> Seq(Event)]
  meta,                  \* index into sub_meta_events_ of the running cycle
  events,                \* events retrieved for the current kind, unprocessed
  content_,              \* the frame content
  init_,                 \* visualizer initialised
  status,                \* result of the last ProcEvents: "NONE", "OK", "ERROR"
  gets,                  \* Get calls made on each shared store
  calls,                 \* history of GetFrameData / init / render calls
  produced,              \* events published or pushed after a failed Subscribe
  cycle,                 \* ProcEvents invocations so far
  subscribe_failed,      \* the blocking Subscribe of this cycle failed
  dropped                \* events retrieved and left unprocessed by a return

vars == <<reserve_, sub_meta_events_, FLAGS, ids, shared, frame_visualizer_,
          pc, queue, meta, events, content_, init_, status, gets, calls,
          produced, cycle, subscribe_failed, dropped>>

NoIds == [vis_driven |-> 0, radar |-> 0, camera |-> 0, cipv |-> 0,
          fusion |-> 0, motion |-> 0]

Init ==
  /\ \E d \in Deployments :
       /\ reserve_ = [parses |-> d.parses, map |-> d.map]
       /\ sub_meta_events_ = d.sub
       /\ FLAGS \in {F \in [FlagNames -> BOOLEAN] :
                      \A f \in FlagNames : F[f] => f \in d.toggles}
  /\ ids = NoIds
  /\ shared = [n \in SharedDataNames |-> FALSE]
  /\ frame_visualizer_ = FALSE
  /\ pc = "constructed"
  /\ queue = [q \in QueueIds |-> <<>>]
  /\ meta = 0
  /\ events = <<>>
  /\ content_ = DefaultContent
  /\ init_ = FALSE
  /\ status = "NONE"
  /\ gets = NoGets
  /\ calls = <<>>
  /\ produced = 0
  /\ cycle = 0
  /\ subscribe_failed = FALSE
  /\ dropped = {}

\* ---------------------------------------------------------------- InitStream
\* InitStream with fusion_event_id not required: when the field is missing
\* the member keeps its value and InitStream goes on.
InitStreamFusionOptional(r) ==
  LET has(k) == r.map[k] # NoField
      val(k) == Atoi(r.map[k])
      all == [vis_driven |-> val("vis_driven_event_id"),
              radar |-> val("radar_event_id"),
              camera |-> val("camera_event_id"),
              cipv |-> val("cipv_event_id"),
              fusion |-> val("fusion_event_id"),
              motion |-> IF has("motion_event_id")
                         THEN val("motion_event_id") ELSE -1]
  IN  IF r.parses /\ has("vis_driven_event_id") /\ has("radar_event_id")
         /\ has("camera_event_id") /\ has("cipv_event_id")
      THEN [ok |-> TRUE, ids |-> all]
      ELSE [ok |-> FALSE, ids |-> NoIds]

\* The identifiers InitStream leaves in the members: it assigns them one by
\* one and returns at the first missing required field.
InitStream(r) ==
  LET has(k) == r.map[k] # NoField
      val(k) == Atoi(r.map[k])
  IN  IF ~r.parses THEN [ok |-> FALSE, ids |-> NoIds]
      ELSE IF ~has("vis_driven_event_id") THEN [ok |-> FALSE, ids |-> NoIds]
      ELSE LET i1 == [NoIds EXCEPT !.vis_driven = val("vis_driven_event_id")]
      IN  IF ~has("radar_event_id") THEN [ok |-> FALSE, ids |-> i1]
      ELSE LET i2 == [i1 EXCEPT !.radar = val("radar_event_id")]
      IN  IF ~has("camera_event_id") THEN [ok |-> FALSE, ids |-> i2]
      ELSE LET i3 == [i2 EXCEPT !.camera = val("camera_event_id")]
      IN  IF ~has("cipv_event_id") THEN [ok |-> FALSE, ids |-> i3]
      ELSE LET i4 == [i3 EXCEPT !.cipv = val("cipv_event_id")]
      IN  IF ~has("fusion_event_id") THEN [ok |-> FALSE, ids |-> i4]
      ELSE LET i5 == [i4 EXCEPT !.fusion = val("fusion_event_id")]
      IN  IF ~has("motion_event_id")
          THEN [ok |-> TRUE, ids |-> [i5 EXCEPT !.motion = -1]]
          ELSE [ok |-> TRUE,
                ids |-> [i5 EXCEPT !.motion = val("motion_event_id")]]

AnyCameraFlag(F) ==
  F["show_camera_objects"] \/ F["show_camera_objects2d"]
    \/ F["show_camera_parsing"]

\* WantedStores with CIPVObjectData left out (cipv_object_data_ stays null).
WantedStoresNoCipv(F) ==
  (IF F["show_radar_objects"] THEN <<"RadarObjectData">> ELSE <<>>)
  \o (IF AnyCameraFlag(F) THEN <<"CameraObjectData">> ELSE <<>>)
  \o (IF F["show_fused_objects"] THEN <<"FusionSharedData">> ELSE <<>>)
  \o (IF AnyCameraFlag(F) THEN <<"CameraSharedData">> ELSE <<>>)

\* The shared stores InitInternal asks the shared data manager for, in order.
WantedStores(F) ==
  (IF F["show_radar_objects"] THEN <<"RadarObjectData">> ELSE <<>>)
  \o (IF AnyCameraFlag(F) THEN <<"CameraObjectData", "CIPVObjectData">>
      ELSE <<>>)
  \o (IF F["show_fused_objects"] THEN <<"FusionSharedData">> ELSE <<>>)
  \o (IF AnyCameraFlag(F) THEN <<"CameraSharedData">> ELSE <<>>)

\* Length of the prefix of wanted stores that resolve before the first miss.
RECURSIVE ResolvedPrefix(_, _)
ResolvedPrefix(w, avail) ==
  IF w = <<>> \/ Head(w) \notin avail THEN 0
  ELSE 1 + ResolvedPrefix(Tail(w), avail)

\* InitInternal; avail is what the shared data manager and the visualizer
\* registry can hand out.
InitInternal ==
  /\ pc = "constructed"
  /\ \E avail \in SUBSET (SharedDataNames \cup {VisualizerName}) :
       LET w == WantedStores(FLAGS)
           n == ResolvedPrefix(w, avail)
           storesOk == n = Len(w)
           visOk == storesOk /\ VisualizerName \in avail
           st == IF visOk THEN InitStream(reserve_)
                 ELSE [ok |-> FALSE, ids |-> NoIds]
       IN  /\ shared' = [s \in SharedDataNames |->
                           \E k \in 1..n : w[k] = s]
           /\ frame_visualizer_' = visOk
           /\ ids' = st.ids
           /\ pc' = IF visOk /\ st.ok THEN "idle" ELSE "init_failed"
  /\ UNCHANGED <<dropped, reserve_, sub_meta_events_, FLAGS, queue, meta, events,
                 content_, init_, status, gets, calls, produced, cycle,
                 subscribe_failed>>

\* ------------------------------------------------------ SubnodeHelper, bus
\* SubnodeHelper::ProduceSharedDataKey: the key of (timestamp, device_id), or
\* a failure for a malformed device label.
ProduceSharedDataKey(timestamp, device_id) ==
  IF device_id = Malformed
  THEN [ok |-> FALSE, key |-> <<"", -1>>]
  ELSE [ok |-> TRUE, key |-> <<device_id, timestamp>>]

SubscribedIds == {sub_meta_events_[k] : k \in 1..Len(sub_meta_events_)}

\* What `Event event;` holds when Subscribe fails and leaves it untouched:
\* the label is the empty string; the two scalar members come from the
\* declaration of Event, which this file does not fix, so any value is
\* possible for them. The model takes, for event_id, 0, every subscribed
\* identifier and the motion identifier, and for timestamp, 0 and 1 (a value
\* no published event carries and one that a published event carries too).
UntouchedEvents ==
  [event_id : {0, ids.motion} \cup SubscribedIds, timestamp : {0, 1},
   reserve : {""}]

\* The device labels the publisher of an identifier puts into Event::reserve.
DeviceIdsOf(id) ==
  (IF id = ids.radar THEN RadarDeviceIds ELSE OtherDeviceIds)
    \cup {Malformed}

\* An upstream subnode publishes an event on the bus, between two cycles or
\* while SubscribeEvents reads the bus (an event published while events are
\* processed is seen by the next Subscribe, as one published right after).
Publish ==
  /\ pc \in {"idle", "sub"}
  /\ produced < MaxEvents
  /\ \E id \in SubscribedIds : \E dev \in DeviceIdsOf(id) :
       queue' = [queue EXCEPT ![id] =
                   Append(@, [event_id |-> id, timestamp |-> produced + 1,
                              reserve |-> dev])]
  /\ produced' = produced + 1
  /\ UNCHANGED <<dropped, reserve_, sub_meta_events_, FLAGS, ids, shared,
                 frame_visualizer_, pc, meta, events, content_, init_, status,
                 gets, calls, cycle, subscribe_failed>>

\* -------------------------------------------------------------- GetFrameData
Hit(found, name) == found[name]

\* CameraBranch without the return after the failed Get on CameraObjectData.
CameraBranchNoReturn(data_key, timestamp, content, found) ==
  IF AnyCameraFlag(FLAGS)
  THEN IF ~Hit(found, "CameraSharedData")
       THEN [content |-> content, returned |-> TRUE,
             lookups |-> <<"CameraSharedData">>]
       ELSE [content |-> [content EXCEPT
                            !.image = [t |-> timestamp, key |-> data_key],
                            !.camera = [t |-> timestamp, key |-> data_key]],
             returned |-> FALSE,
             lookups |-> <<"CameraSharedData", "CameraObjectData">>]
  ELSE [content |-> content, returned |-> FALSE, lookups |-> <<>>]

\* The camera branch (event_id == camera_event_id_).
CameraBranch(data_key, timestamp, content, found) ==
  IF AnyCameraFlag(FLAGS)
  THEN IF ~Hit(found, "CameraSharedData")
       THEN [content |-> content, returned |-> TRUE,
             lookups |-> <<"CameraSharedData">>]
       ELSE LET c1 == [content EXCEPT
                         !.image = [t |-> timestamp, key |-> data_key]]
            IN  IF ~Hit(found, "CameraObjectData")
                THEN [content |-> c1, returned |-> TRUE,
                      lookups |-> <<"CameraSharedData", "CameraObjectData">>]
                ELSE [content |->
                        IF FLAGS["show_camera_parsing"] THEN c1
                        ELSE [c1 EXCEPT
                                !.camera = [t |-> timestamp, key |-> data_key]],
                      returned |-> FALSE,
                      lookups |-> <<"CameraSharedData", "CameraObjectData">>]
  ELSE [content |-> content, returned |-> FALSE, lookups |-> <<>>]

\* RadarBranch without the test of FLAGS_show_radar_objects.
RadarBranchNoToggle(device_id, data_key, timestamp, content, found) ==
  IF device_id = "radar_front"
  THEN IF ~Hit(found, "RadarObjectData")
       THEN [content |-> content, returned |-> TRUE,
             lookups |-> <<"RadarObjectData">>]
       ELSE [content |-> [content EXCEPT
                            !.radar = [t |-> timestamp, key |-> data_key]],
             returned |-> FALSE, lookups |-> <<"RadarObjectData">>]
  ELSE [content |-> content, returned |-> FALSE, lookups |-> <<>>]

\* RadarBranch without the test of the device label.
RadarBranchAnyDevice(device_id, data_key, timestamp, content, found) ==
  IF FLAGS["show_radar_objects"]
  THEN IF ~Hit(found, "RadarObjectData")
       THEN [content |-> content, returned |-> TRUE,
             lookups |-> <<"RadarObjectData">>]
       ELSE [content |-> [content EXCEPT
                            !.radar = [t |-> timestamp, key |-> data_key]],
             returned |-> FALSE, lookups |-> <<"RadarObjectData">>]
  ELSE [content |-> content, returned |-> FALSE, lookups |-> <<>>]

\* The radar branch (event_id == radar_event_id_).
RadarBranch(device_id, data_key, timestamp, content, found) ==
  IF device_id = "radar_front" /\ FLAGS["show_radar_objects"]
  THEN IF ~Hit(found, "RadarObjectData")
       THEN [content |-> content, returned |-> TRUE,
             lookups |-> <<"RadarObjectData">>]
       ELSE [content |-> [content EXCEPT
                            !.radar = [t |-> timestamp, key |-> data_key]],
             returned |-> FALSE, lookups |-> <<"RadarObjectData">>]
  ELSE [content |-> content, returned |-> FALSE, lookups |-> <<>>]

\* The fusion branch (event_id == fusion_event_id_).
FusionBranch(data_key, timestamp, content, found) ==
  IF FLAGS["show_fused_objects"]
  THEN IF ~Hit(found, "FusionSharedData")
       THEN [content |-> content, returned |-> TRUE,
             lookups |-> <<"FusionSharedData">>]
       ELSE [content |-> [content EXCEPT
                            !.fusion = [t |-> timestamp, key |-> data_key]],
             returned |-> FALSE, lookups |-> <<"FusionSharedData">>]
  ELSE [content |-> content, returned |-> FALSE, lookups |-> <<>>]

\* CipvBranch with set_camera_content called under FLAGS_show_camera_parsing
\* as well.
CipvBranchParsingWrites(data_key, timestamp, content, found) ==
  IF AnyCameraFlag(FLAGS)
  THEN IF ~Hit(found, "CameraSharedData")
       THEN [content |-> content, returned |-> TRUE,
             lookups |-> <<"CameraSharedData">>]
       ELSE LET c1 == [content EXCEPT
                         !.image = [t |-> timestamp, key |-> data_key]]
            IN  IF ~Hit(found, "CIPVObjectData")
                THEN [content |-> c1, returned |-> TRUE,
                      lookups |-> <<"CameraSharedData", "CIPVObjectData">>]
                ELSE [content |->
                        [c1 EXCEPT
                           !.camera = [t |-> timestamp, key |-> data_key]],
                      returned |-> FALSE,
                      lookups |-> <<"CameraSharedData", "CIPVObjectData">>]
  ELSE [content |-> content, returned |-> FALSE, lookups |-> <<>>]

\* The cipv branch (event_id == cipv_event_id_).
CipvBranch(data_key, timestamp, content, found) ==
  IF AnyCameraFlag(FLAGS)
  THEN IF ~Hit(found, "CameraSharedData")
       THEN [content |-> content, returned |-> TRUE,
             lookups |-> <<"CameraSharedData">>]
       ELSE LET c1 == [content EXCEPT
                         !.image = [t |-> timestamp, key |-> data_key]]
            IN  IF ~Hit(found, "CIPVObjectData")
                THEN [content |-> c1, returned |-> TRUE,
                      lookups |-> <<"CameraSharedData", "CIPVObjectData">>]
                ELSE [content |->
                        IF FLAGS["show_camera_parsing"] THEN c1
                        ELSE [c1 EXCEPT
                                !.camera = [t |-> timestamp, key |-> data_key]],
                      returned |-> FALSE,
                      lookups |-> <<"CameraSharedData", "CIPVObjectData">>]
  ELSE [content |-> content, returned |-> FALSE, lookups |-> <<>>]

\* KindBranch without the motion branch: an event with the motion identifier
\* falls through to the branches after it.
KindBranchNoMotion(event, device_id, data_key, timestamp, content, found) ==
  IF event.event_id = ids.camera
  THEN CameraBranch(data_key, timestamp, content, found)
  ELSE IF event.event_id = ids.radar
  THEN RadarBranch(device_id, data_key, timestamp, content, found)
  ELSE IF event.event_id = ids.fusion
  THEN FusionBranch(data_key, timestamp, content, found)
  ELSE IF event.event_id = ids.cipv
  THEN CipvBranch(data_key, timestamp, content, found)
  ELSE [content |-> content, returned |-> FALSE, lookups |-> <<>>]

\* KindBranch with `if` in place of every `else if`: each branch whose
\* identifier matches runs, in the order of the chain, until one returns.
KindBranchEveryMatch(event, device_id, data_key, timestamp, content, found) ==
  LET Then(prev, match, br) ==
        IF prev.returned \/ ~match THEN prev
        ELSE [content |-> br.content, returned |-> br.returned,
              lookups |-> prev.lookups \o br.lookups]
      b0 == [content |-> content, returned |-> FALSE, lookups |-> <<>>]
      b1 == Then(b0, event.event_id = ids.camera,
                 CameraBranch(data_key, timestamp, b0.content, found))
      b2 == Then(b1, event.event_id = ids.radar,
                 RadarBranch(device_id, data_key, timestamp, b1.content,
                             found))
      b3 == Then(b2, event.event_id = ids.fusion,
                 FusionBranch(data_key, timestamp, b2.content, found))
  IN  Then(b3, event.event_id = ids.cipv,
           CipvBranch(data_key, timestamp, b3.content, found))

\* The if / else-if chain on event.event_id.
KindBranch(event, device_id, data_key, timestamp, content, found) ==
  IF event.event_id = ids.camera
  THEN CameraBranch(data_key, timestamp, content, found)
  ELSE IF event.event_id = ids.motion
  THEN [content |-> content, returned |-> FALSE, lookups |-> <<>>]
  ELSE IF event.event_id = ids.radar
  THEN RadarBranch(device_id, data_key, timestamp, content, found)
  ELSE IF event.event_id = ids.fusion
  THEN FusionBranch(data_key, timestamp, content, found)
  ELSE IF event.event_id = ids.cipv
  THEN CipvBranch(data_key, timestamp, content, found)
  ELSE [content |-> content, returned |-> FALSE, lookups |-> <<>>]

\* The trailing update_timestamp, reached only when no branch returned.
UpdateTimestamp(event, timestamp, b) ==
  IF ~b.returned /\ event.event_id = ids.vis_driven
  THEN [b.content EXCEPT !.timestamp = timestamp]
  ELSE b.content

\* GetFrameData: the content afterwards and the stores it called Get on;
\* found tells which stores hold a payload under data_key.
GetFrameData(event, device_id, data_key, timestamp, content, found) ==
  LET b == KindBranch(event, device_id, data_key, timestamp, content, found)
  IN  [content |-> UpdateTimestamp(event, timestamp, b),
       lookups |-> b.lookups,
       hits |-> [k \in 1..Len(b.lookups) |-> found[b.lookups[k]]]]

\* ---------------------------------------------------------------- ProcEvents
Call(op, kind, ev, g, content) ==
  [op |-> op, cycle |-> cycle, kind |-> kind, ev |-> ev,
   lookups |-> g.lookups, hits |-> g.hits, content |-> content]

NoLookups == [lookups |-> <<>>, hits |-> <<>>]

\* Visualize with init called for every driving event (init_ never looked at).
VisualizeInitEveryTime(event_meta, initd, ev, content) ==
  IF event_meta = ids.vis_driven
  THEN <<Call("init", event_meta, ev, NoLookups, DefaultContent),
         Call("render", event_meta, ev, NoLookups, content)>>
  ELSE <<>>

\* Visualize without the test on the kind: every event is rendered.
VisualizeEveryKind(event_meta, initd, ev, content) ==
  (IF ~initd
   THEN <<Call("init", event_meta, ev, NoLookups, DefaultContent)>>
   ELSE <<>>)
  \o <<Call("render", event_meta, ev, NoLookups, content)>>

\* Visualize placed before GetFrameData: it renders the content as it was
\* before the event was merged.
VisualizeBeforeGetFrameData(event_meta, initd, ev, content) ==
  IF event_meta = ids.vis_driven
  THEN (IF ~initd
        THEN <<Call("init", event_meta, ev, NoLookups, DefaultContent)>>
        ELSE <<>>)
       \o <<Call("render", event_meta, ev, NoLookups, content_)>>
  ELSE <<>>

\* Visualize with render called before the lazy init.
VisualizeRenderBeforeInit(event_meta, initd, ev, content) ==
  IF event_meta = ids.vis_driven
  THEN <<Call("render", event_meta, ev, NoLookups, content)>>
       \o (IF ~initd
           THEN <<Call("init", event_meta, ev, NoLookups, DefaultContent)>>
           ELSE <<>>)
  ELSE <<>>

\* The block after GetFrameData: for the driving kind, the lazy init of the
\* visualizer and then render, on the content as it is now.
Visualize(event_meta, initd, ev, content) ==
  IF event_meta = ids.vis_driven
  THEN (IF ~initd
        THEN <<Call("init", event_meta, ev, NoLookups, DefaultContent)>>
        ELSE <<>>)
       \o <<Call("render", event_meta, ev, NoLookups, content)>>
  ELSE <<>>

\* EventStatus with a Get that found nothing treated as a failure.
EventStatusMissFails(keyOk, g) ==
  IF keyOk /\ \A k \in 1..Len(g.hits) : g.hits[k] THEN "RUNNING" ELSE "ERROR"

\* EventStatus with the result of ProduceSharedDataKey not looked at.
EventStatusKeyIgnored(keyOk, g) == "RUNNING"

\* The status ProcEvents has after one event: only a failed key derivation
\* ends the cycle; GetFrameData returns nothing to fail on.
EventStatus(keyOk, g) == IF keyOk THEN "RUNNING" ELSE "ERROR"

RECURSIVE CountOf(_, _)
CountOf(name, seq) ==
  IF seq = <<>> THEN 0
  ELSE (IF Head(seq) = name THEN 1 ELSE 0) + CountOf(name, Tail(seq))

\* The end of the body of the loop over sub_meta_events_: the next kind, or
\* return Status::OK() after the last.
NextKind ==
  IF meta = Len(sub_meta_events_)
  THEN /\ pc' = "idle"
       /\ status' = "OK"
       /\ meta' = 0
       /\ events' = <<>>
  ELSE /\ pc' = "sub"
       /\ status' = status
       /\ meta' = meta + 1
       /\ events' = <<>>

\* What the stores can answer to Get(data_key): a store this subnode did not
\* resolve is never asked, so only the resolved ones vary.
Found ==
  {f \in [SharedDataNames -> BOOLEAN] : \A n \in SharedDataNames : f[n] => shared[n]}

\* `continue` turned into a failure: a kind without events fails the cycle.
ContinueFails ==
  /\ pc' = "idle"
  /\ status' = "ERROR"
  /\ meta' = 0
  /\ events' = <<>>

\* if (events.empty()) continue;
Continue == NextKind

\* The subnode's thread calls ProcEvents.
BeginProcEvents ==
  /\ pc = "idle"
  /\ cycle' = cycle + 1
  /\ subscribe_failed' = FALSE
  /\ IF sub_meta_events_ = <<>>
     THEN /\ status' = "OK"
          /\ UNCHANGED <<pc, meta>>
     ELSE /\ status' = "RUNNING"
          /\ pc' = "sub"
          /\ meta' = 1
  /\ events' = <<>>
  /\ UNCHANGED <<dropped, reserve_, sub_meta_events_, FLAGS, ids, shared,
                 frame_visualizer_, queue, content_, init_, gets, calls,
                 produced>>

\* SubscribeEvents, driving kind: the blocking Subscribe hands over the head
\* of the queue (and waits while there is none); its result is not looked at
\* and the event is pushed.
SubscribeDriving ==
  /\ pc = "sub"
  /\ sub_meta_events_[meta] = ids.vis_driven
  /\ queue[sub_meta_events_[meta]] # <<>>
  /\ events' = <<Head(queue[sub_meta_events_[meta]])>>
  /\ queue' = [queue EXCEPT ![sub_meta_events_[meta]] = Tail(@)]
  /\ pc' = "proc"
  /\ UNCHANGED <<dropped, reserve_, sub_meta_events_, FLAGS, ids, shared,
                 frame_visualizer_, meta, content_, init_, status, gets,
                 calls, produced, cycle, subscribe_failed>>

\* SubscribeEvents, driving kind, when the blocking Subscribe fails: the
\* event is pushed as it was declared, and SubscribeEvents returns true.
SubscribeDrivingFails ==
  /\ pc = "sub"
  /\ sub_meta_events_[meta] = ids.vis_driven
  /\ produced < MaxEvents
  /\ produced' = produced + 1
  /\ \E event \in UntouchedEvents : events' = <<event>>
  /\ subscribe_failed' = TRUE
  /\ pc' = "proc"
  /\ UNCHANGED <<dropped, reserve_, sub_meta_events_, FLAGS, ids, shared,
                 frame_visualizer_, queue, meta, content_, init_, status,
                 gets, calls, cycle>>

\* SubscribeEvents, any other kind: one non-blocking Subscribe that returns an
\* event, which is pushed.
PollEvent ==
  /\ pc = "sub"
  /\ sub_meta_events_[meta] # ids.vis_driven
  /\ queue[sub_meta_events_[meta]] # <<>>
  /\ events' = Append(events, Head(queue[sub_meta_events_[meta]]))
  /\ queue' = [queue EXCEPT ![sub_meta_events_[meta]] = Tail(@)]
  /\ UNCHANGED <<dropped, reserve_, sub_meta_events_, FLAGS, ids, shared,
                 frame_visualizer_, pc, meta, content_, init_, status, gets,
                 calls, produced, cycle, subscribe_failed>>

\* PollEmpty for a Subscribe that waits until the kind has had one event: on
\* an empty queue it returns only after an event was retrieved.
PollEmptyWaits ==
  /\ pc = "sub"
  /\ sub_meta_events_[meta] # ids.vis_driven
  /\ queue[sub_meta_events_[meta]] = <<>>
  /\ events # <<>>
  /\ pc' = "proc"
  /\ UNCHANGED <<dropped, reserve_, sub_meta_events_, FLAGS, ids, shared,
                 frame_visualizer_, queue, meta, events, content_, init_,
                 status, gets, calls, produced, cycle, subscribe_failed>>

\* SubscribeEvents, any other kind: the non-blocking Subscribe returns false,
\* the drain loop ends and SubscribeEvents returns true; ProcEvents goes on
\* to the events, or to the next kind when there are none.
PollEmpty ==
  /\ pc = "sub"
  /\ sub_meta_events_[meta] # ids.vis_driven
  /\ queue[sub_meta_events_[meta]] = <<>>
  /\ IF events = <<>>
     THEN Continue
     ELSE /\ pc' = "proc"
          /\ UNCHANGED <<meta, events, status>>
  /\ UNCHANGED <<dropped, reserve_, sub_meta_events_, FLAGS, ids, shared,
                 frame_visualizer_, queue, content_, init_, gets, calls,
                 produced, cycle, subscribe_failed>>

\* return Status(ErrorCode::PERCEPTION_ERROR, ...) from inside the loops:
\* the vector events goes out of scope with the events not yet processed.
ReturnError ==
  /\ status' = "ERROR"
  /\ pc' = "idle"
  /\ meta' = 0
  /\ events' = <<>>
  /\ dropped' = dropped \cup {events[j] : j \in 2..Len(events)}

\* FailedToProduceKey with the content put back to what it was before the
\* first event.
FailedToProduceKeyRollsBack ==
  /\ ReturnError
  /\ content_' = DefaultContent
  /\ UNCHANGED <<init_, gets, calls>>

\* ProduceSharedDataKey returned false for events[j].
FailedToProduceKey ==
  /\ ReturnError
  /\ UNCHANGED <<content_, init_, gets, calls>>

\* The body of the loop over events for events[j]: key derivation,
\* GetFrameData, and for the driving kind init and render.
ProcessEvent ==
  /\ pc = "proc"
  /\ LET event == Head(events)
         timestamp == event.timestamp
         device_id == event.reserve
         event_meta == sub_meta_events_[meta]
         k == ProduceSharedDataKey(timestamp, device_id)
     IN  IF EventStatus(k.ok, NoLookups) = "ERROR"
         THEN FailedToProduceKey
         ELSE \E found \in Found :
                LET g == GetFrameData(event, device_id, k.key, timestamp,
                                      content_, found)
                    v == Visualize(event_meta, init_, event, g.content)
                IN  /\ content_' = g.content
                    /\ gets' = [n \in SharedDataNames |->
                                  gets[n] + CountOf(n, g.lookups)]
                    /\ calls' = calls
                         \o <<Call("GetFrameData", event_meta, event, g,
                                   g.content)>>
                         \o v
                    /\ init_' = (init_ \/ \E c \in 1..Len(v) : v[c].op = "init")
                    /\ IF EventStatus(k.ok, g) = "ERROR"
                       THEN ReturnError
                       ELSE IF Tail(events) # <<>>
                       THEN /\ events' = Tail(events)
                            /\ UNCHANGED <<pc, meta, status, dropped>>
                       ELSE NextKind /\ dropped' = dropped
  /\ UNCHANGED <<reserve_, sub_meta_events_, FLAGS, ids, shared,
                 frame_visualizer_, queue, produced, cycle,
                 subscribe_failed>>

Next ==
  \/ InitInternal
  \/ Publish
  \/ BeginProcEvents
  \/ SubscribeDriving
  \/ SubscribeDrivingFails
  \/ PollEvent
  \/ PollEmpty
  \/ ProcessEvent

TypeOK == pc \in {"constructed", "init_failed", "idle", "sub", "proc"}

Spec == Init /\ [][Next]_vars

\* The thread that runs ProcEvents keeps running: a poll that can return, an
\* event waiting to be processed, or a blocking Subscribe whose event is on
\* the bus is eventually executed. Nothing is assumed of the producers, of
\* the failures of Subscribe, or of when ProcEvents is called again.
FairSpec ==
  /\ Spec
  /\ WF_vars(SubscribeDriving)
  /\ WF_vars(PollEvent)
  /\ WF_vars(PollEmpty)
  /\ WF_vars(ProcessEvent)

\* ------------------------------------------------------- reading the history
CallIdx == 1..Len(calls)
IsGetFrameData(n) == calls[n].op = "GetFrameData"
IsRender(n) == calls[n].op = "render"
IsInit(n) == calls[n].op = "init"
\* the event of call n was retrieved for the driving kind
ForDriving(n) == calls[n].kind = ids.vis_driven
\* the event of call n came off the bus (a publisher always labels its device)
FromBus(n) == calls[n].ev.reserve # ""
\* some Get of call n found no payload
HasMiss(n) == \E k \in 1..Len(calls[n].hits) : ~calls[n].hits[k]
InitCalls == Cardinality({n \in CallIdx : IsInit(n)})
RenderCalls == Cardinality({n \in CallIdx : IsRender(n)})

\* ------------------------------------------------------------------- C1
\* C1: if the subscribe call for the Driving kind fails in a cycle, ProcEvents
\* returns a failure status for that cycle and render is not called during
\* that cycle.
C1_FailedSubscribeAborts ==
  subscribe_failed =>
    /\ \A n \in CallIdx : calls[n].cycle = cycle => ~IsRender(n)
    /\ pc = "idle" => status = "ERROR"

\* ------------------------------------------------------------------- C2
\* C2: for every Driving event processed by GetFrameData (an event off the
\* bus that carries the driving identifier), the frame timestamp of the
\* content afterwards is that event's timestamp, whatever kind-specific
\* branch ran for it.
C2_DrivingSetsTimestamp ==
  \A n \in CallIdx :
    (IsGetFrameData(n) /\ FromBus(n)
       /\ calls[n].ev.event_id = ids.vis_driven)
      => calls[n].content.timestamp = calls[n].ev.timestamp

\* ------------------------------------------------------------------- C3
\* C3: over any number of cycles and Driving events the visualizer's init is
\* executed exactly once, and zero times only while no event of the driving
\* kind has been processed.
C3_InitExactlyOnce ==
  /\ InitCalls <= 1
  /\ InitCalls = 0 <=> ~\E n \in CallIdx : IsGetFrameData(n) /\ ForDriving(n)
  /\ init_ <=> InitCalls = 1

\* two driving events rendered in two cycles, after a single init
C3_Witness ==
  /\ InitCalls = 1
  /\ \E m, n \in CallIdx :
       /\ IsRender(m) /\ IsRender(n)
       /\ calls[m].cycle < calls[n].cycle

\* ------------------------------------------------------------------- C4
\* render n comes right after the GetFrameData of its own driving event
PrecededByOwnGetFrameData(n) ==
  LET g == IF n > 1 /\ IsInit(n - 1) THEN n - 2 ELSE n - 1
  IN  /\ g >= 1
      /\ IsGetFrameData(g)
      /\ ForDriving(g)
      /\ calls[g].ev = calls[n].ev
      /\ calls[g].cycle = calls[n].cycle

\* GetFrameData g is followed by exactly one render, of its own event
FollowedByOwnRender(g) ==
  LET n == IF g < Len(calls) /\ IsInit(g + 1) THEN g + 2 ELSE g + 1
  IN  /\ n <= Len(calls)
      /\ IsRender(n)
      /\ calls[n].ev = calls[g].ev
      /\ n < Len(calls) => ~IsRender(n + 1)

\* C4: a render happens only for an event retrieved for the driving kind,
\* exactly once per such event, right after that event's GetFrameData with
\* nothing but the one-time init in between; an event of another kind is
\* never followed by a render.
C4_RenderOnlyAfterDriving ==
  /\ \A n \in CallIdx :
       IsRender(n) => ForDriving(n) /\ PrecededByOwnGetFrameData(n)
  /\ \A g \in CallIdx :
       IsGetFrameData(g) =>
         IF ForDriving(g) THEN FollowedByOwnRender(g)
         ELSE g < Len(calls) => IsGetFrameData(g + 1)

\* an event of a drained kind, then the driving event of the cycle, rendered once
C4_Witness ==
  \E g \in CallIdx :
    /\ g + 2 <= Len(calls)
    /\ IsGetFrameData(g) /\ ~ForDriving(g)
    /\ IsGetFrameData(g + 1) /\ ForDriving(g + 1)
    /\ RenderCalls = 1

\* ------------------------------------------------------------------- C5
\* the answers the stores gave to recorded call c
FoundOf(c) ==
  [s \in SharedDataNames |->
     \E k \in 1..Len(c.lookups) : c.lookups[k] = s /\ c.hits[k]]

\* the content obtained by applying GetFrameData for the first n recorded
\* calls, in order, from the content as constructed
RECURSIVE ReplayTo(_)
ReplayTo(n) ==
  IF n = 0 THEN DefaultContent
  ELSE LET c == calls[n]
           prev == ReplayTo(n - 1)
       IN  IF c.op = "GetFrameData"
           THEN GetFrameData(c.ev, c.ev.reserve,
                             ProduceSharedDataKey(c.ev.timestamp,
                                                  c.ev.reserve).key,
                             c.ev.timestamp, prev, FoundOf(c)).content
           ELSE prev

MetaIndex(kind) ==
  CHOOSE k \in 1..Len(sub_meta_events_) : sub_meta_events_[k] = kind

InProcessingOrder(a, b) ==
  /\ calls[a].cycle <= calls[b].cycle
  /\ calls[a].cycle = calls[b].cycle
       => MetaIndex(calls[a].kind) <= MetaIndex(calls[b].kind)
  /\ (calls[a].kind = calls[b].kind /\ FromBus(a) /\ FromBus(b))
       => calls[a].ev.timestamp < calls[b].ev.timestamp

\* C5: the content handed to a render is the result of applying, in
\* configured kind order and per-kind arrival order, every GetFrameData
\* update of all prior cycles and of the events processed earlier in the same
\* cycle, up to and including the triggering driving event.
C5_RenderSeesAllEarlierUpdates ==
  /\ \A n \in CallIdx : IsRender(n) => calls[n].content = ReplayTo(n)
  /\ \A a, b \in CallIdx :
       (a < b /\ IsGetFrameData(a) /\ IsGetFrameData(b))
         => InProcessingOrder(a, b)

\* a render whose content carries the update of an event of another kind
\* processed earlier in the same cycle, and the driving event's timestamp
C5_Witness ==
  \E g, n \in CallIdx :
    /\ g < n
    /\ IsGetFrameData(g) /\ ~ForDriving(g) /\ IsRender(n)
    /\ calls[g].cycle = calls[n].cycle
    /\ calls[g].content # DefaultContent
    /\ calls[n].content.timestamp = calls[n].ev.timestamp
    /\ \E f \in {"image", "radar", "fusion"} :
         calls[n].content[f].t = calls[g].ev.timestamp

\* ------------------------------------------------- steps of ProcEvents
\* the event ProcEvents is about to process, and its kind
CurrentEvent == Head(events)
CurrentKind == sub_meta_events_[meta]
\* this step handed CurrentEvent to GetFrameData
Correlated == pc = "proc" /\ Len(calls') > Len(calls)
\* the call GetFrameData of this step
ThisCall == calls'[Len(calls) + 1]
MissedIn(c, stores) ==
  \E k \in 1..Len(c.lookups) : c.lookups[k] \in stores /\ ~c.hits[k]
\* the loop goes on as after any event: the next event of the kind, the
\* next kind, or return Status::OK() after the last kind
GoesOn ==
  /\ status' # "ERROR"
  /\ IF Len(events) > 1
     THEN pc' = "proc" /\ events' = Tail(events) /\ meta' = meta
     ELSE IF meta < Len(sub_meta_events_)
     THEN pc' = "sub" /\ meta' = meta + 1
     ELSE pc' = "idle" /\ status' = "OK"

\* ------------------------------------------------------------------- C6
\* C6: a store lookup that finds no payload never makes ProcEvents fail: the
\* remaining events of the kind and the following kinds are still processed,
\* and a driving event is still rendered.
C6_MissNeverFails ==
  [][(Correlated /\ MissedIn(ThisCall, SharedDataNames)) =>
       /\ GoesOn
       /\ CurrentKind = ids.vis_driven =>
            /\ calls'[Len(calls')].op = "render"
            /\ calls'[Len(calls')].ev = CurrentEvent]_vars

\* a miss on an event of a drained kind, then the driving event of the same
\* cycle rendered and the cycle returned OK
C6_Witness ==
  /\ pc = "idle" /\ status = "OK"
  /\ \E g, n \in CallIdx :
       /\ g < n
       /\ IsGetFrameData(g) /\ HasMiss(g) /\ ~ForDriving(g)
       /\ IsRender(n)
       /\ calls[g].cycle = cycle /\ calls[n].cycle = cycle

\* ------------------------------------------------------------------- C7
ImageStores == {"CameraSharedData"}
DetectionStores == {"CameraObjectData", "CIPVObjectData"}
CameraOrCipvEvent == CurrentEvent.event_id \in {ids.camera, ids.cipv}

\* C7 as stated: for a Camera or Cipv event, if the image payload or the
\* detection-list payload is missing from its store, the event changes
\* neither the image nor the camera detections of the content.
C7_MissOmitsEvent ==
  [][(Correlated /\ CameraOrCipvEvent
        /\ MissedIn(ThisCall, ImageStores \cup DetectionStores)) =>
       /\ content_'.image = content_.image
       /\ content_'.camera = content_.camera]_vars

\* C7 as amended: if the image payload is missing, the event changes neither
\* the image nor the camera detections; if the image is found and the
\* detection list is missing, the image becomes the event's image and the
\* camera detections are unchanged.
C7_MissOmitsDetections ==
  [][(Correlated /\ CameraOrCipvEvent
        /\ MissedIn(ThisCall, ImageStores \cup DetectionStores)) =>
       /\ content_'.camera = content_.camera
       /\ MissedIn(ThisCall, ImageStores) => content_'.image = content_.image
       /\ MissedIn(ThisCall, DetectionStores) =>
            content_'.image =
              [t |-> CurrentEvent.timestamp,
               key |-> ProduceSharedDataKey(CurrentEvent.timestamp,
                                            CurrentEvent.reserve).key]]_vars

\* a Camera event whose image was found and whose detection list was not
C7_Witness ==
  \E g \in CallIdx :
    /\ IsGetFrameData(g)
    /\ calls[g].ev.event_id = ids.camera
    /\ calls[g].lookups = <<"CameraSharedData", "CameraObjectData">>
    /\ calls[g].hits = <<TRUE, FALSE>>
    /\ calls[g].content.image.t = calls[g].ev.timestamp
    /\ calls[g].content.camera = NoPayload

\* ------------------------------------------------------------------- C8
\* C8: with a toggle off, no Get is ever made on the corresponding store:
\* radar off, none on RadarObjectData; fusion off, none on FusionSharedData;
\* the three camera toggles off, none on CameraSharedData, CameraObjectData
\* and CIPVObjectData.
C8_ToggleOffNoLookup ==
  /\ ~FLAGS["show_radar_objects"] => gets["RadarObjectData"] = 0
  /\ ~FLAGS["show_fused_objects"] => gets["FusionSharedData"] = 0
  /\ ~AnyCameraFlag(FLAGS) =>
       /\ gets["CameraSharedData"] = 0
       /\ gets["CameraObjectData"] = 0
       /\ gets["CIPVObjectData"] = 0

\* a front-radar event processed by the radar branch with the radar toggle off
C8_Witness ==
  /\ ~FLAGS["show_radar_objects"]
  /\ \E g \in CallIdx :
       /\ IsGetFrameData(g)
       /\ calls[g].ev.event_id = ids.radar
       /\ ids.radar \notin {ids.camera, ids.motion}
       /\ calls[g].ev.reserve = "radar_front"

\* ------------------------------------------------------------------- C9
\* C9: a Radar event whose device label is not "radar_front" (and is a label
\* a key can be derived from), with the radar toggle on, sets no radar
\* content, makes no Get on RadarObjectData and does not fail the cycle.
C9_OtherRadarDeviceIgnored ==
  [][(pc = "proc"
        /\ CurrentEvent.event_id = ids.radar
        /\ CurrentEvent.reserve \notin {"radar_front", Malformed}
        /\ FLAGS["show_radar_objects"]) =>
       /\ content_'.radar = content_.radar
       /\ gets'["RadarObjectData"] = gets["RadarObjectData"]
       /\ status' # "ERROR"]_vars

\* a rear-radar event went through the radar branch with the toggle on
C9_Witness ==
  /\ FLAGS["show_radar_objects"]
  /\ pc = "idle" /\ status = "OK"
  /\ \E g \in CallIdx :
       /\ IsGetFrameData(g)
       /\ calls[g].ev.event_id = ids.radar
       /\ ids.radar \notin {ids.camera, ids.motion}
       /\ calls[g].ev.reserve = "radar_rear"
       /\ calls[g].cycle = cycle

\* ------------------------------------------------------------------ C10
\* C10: for a kind other than driving, a cycle in which the subscribe returns
\* no event leaves the content unchanged on account of that kind, raises no
\* error, and goes on to the next configured kind.
C10_NoEventsNoChange ==
  [][(pc = "sub" /\ CurrentKind # ids.vis_driven
        /\ queue[CurrentKind] = <<>> /\ events = <<>>
        /\ queue' = queue) =>
       /\ content_' = content_
       /\ calls' = calls
       /\ status' # "ERROR"
       /\ IF meta < Len(sub_meta_events_)
          THEN pc' = "sub" /\ meta' = meta + 1
          ELSE pc' = "idle" /\ status' = "OK"]_vars

\* a cycle that returned OK having rendered its driving event and processed
\* no event of the other kind
C10_Witness ==
  /\ pc = "idle" /\ status = "OK"
  /\ \E n \in CallIdx : IsRender(n) /\ calls[n].cycle = cycle
  /\ \A n \in CallIdx : calls[n].cycle = cycle => ForDriving(n)

\* ------------------------------------------------------------------ C11
KeyDerivationFails ==
  ~ProduceSharedDataKey(CurrentEvent.timestamp, CurrentEvent.reserve).ok

\* C11: when key derivation fails for an event, ProcEvents returns a failure
\* status at once: the event is not handed to GetFrameData and not rendered
\* (no call is made, the content stays as it is), and the cycle is over, so
\* no later event of the kind and no later kind is processed in it.
C11_KeyFailureAborts ==
  [][(pc = "proc" /\ KeyDerivationFails) =>
       /\ status' = "ERROR"
       /\ pc' = "idle"
       /\ calls' = calls
       /\ content_' = content_
       /\ gets' = gets
       /\ init_' = init_
       /\ events' = <<>>
       /\ queue' = queue]_vars

\* a cycle that failed and made no call, while an event of a kind it had not
\* yet reached waits on the bus
C11_Witness ==
  /\ pc = "idle" /\ status = "ERROR"
  /\ \A n \in CallIdx : calls[n].cycle # cycle
  /\ \E m \in 1..Len(sub_meta_events_) : queue[sub_meta_events_[m]] # <<>>

\* ------------------------------------------------------------------ C12
RequiredKeys == ReserveKeys \ {"motion_event_id"}
\* InitInternal got as far as InitStream: the stores and the visualizer were
\* resolved
InitStreamCalled == pc # "constructed" /\ frame_visualizer_
InitStreamSucceeded == InitStreamCalled /\ pc # "init_failed"

\* C12: InitStream succeeds if and only if the reserve string parses and
\* holds the five required identifiers (driving, radar, camera, cipv,
\* fusion); a missing motion identifier never makes it fail, and leaves the
\* motion identifier at -1.
C12_RequiredIdentifiers ==
  InitStreamCalled =>
    /\ InitStreamSucceeded <=>
          (reserve_.parses /\ \A k \in RequiredKeys : reserve_.map[k] # NoField)
    /\ (InitStreamSucceeded /\ reserve_.map["motion_event_id"] = NoField) =>
          ids.motion = -1
    /\ (InitStreamSucceeded /\ reserve_.map["motion_event_id"] # NoField) =>
          ids.motion = Atoi(reserve_.map["motion_event_id"])

\* initialization failed in InitStream on a reserve string that parses and
\* lacks nothing but the fusion identifier
C12_Witness ==
  /\ InitStreamCalled /\ pc = "init_failed"
  /\ reserve_.parses
  /\ \A k \in ReserveKeys : reserve_.map[k] = NoField <=> k = "fusion_event_id"

\* ------------------------------------------------------------------ C13
\* the event goes to the motion branch of GetFrameData (the camera branch
\* comes first) and is not an event of the driving identifier as well
MotionEvent ==
  /\ CurrentEvent.event_id = ids.motion
  /\ CurrentEvent.event_id \notin {ids.camera, ids.vis_driven}

\* C13: processing a Motion event, with the motion identifier configured or
\* left at -1, does not fail the cycle, changes nothing in the content and
\* asks no store.
C13_MotionInert ==
  [][(pc = "proc" /\ ~KeyDerivationFails /\ MotionEvent) =>
       /\ Correlated
       /\ content_' = content_
       /\ gets' = gets
       /\ GoesOn]_vars

\* the motion identifier was left at -1, an event with identifier -1 was
\* handed to GetFrameData, and the cycle returned OK with the content as
\* it was when no event had been processed
C13_Witness ==
  /\ pc = "idle" /\ status = "OK"
  /\ reserve_.map["motion_event_id"] = NoField
  /\ \E g \in CallIdx :
       /\ IsGetFrameData(g)
       /\ calls[g].ev.event_id = -1
       /\ calls[g].cycle = cycle
       /\ calls[g].content = content_

\* ------------------------------------------------------------------ C14
\* call n handed an event with the driving identifier to GetFrameData
DrivingEventCall(n) ==
  IsGetFrameData(n) /\ calls[n].ev.event_id = ids.vis_driven
LastDrivingEventCall(n) ==
  DrivingEventCall(n) /\ \A m \in CallIdx : DrivingEventCall(m) => m <= n
NonDrivingKeepsTimestamp ==
  (pc = "proc" /\ CurrentEvent.event_id # ids.vis_driven) =>
    content_'.timestamp = content_.timestamp
TimestampOfLastDriving ==
  (pc = "idle" /\ \A n \in CallIdx : FromBus(n)) =>
    \A n \in CallIdx :
      LastDrivingEventCall(n) => content_.timestamp = calls[n].ev.timestamp

\* C14: the frame timestamp is changed only by Driving events: processing an
\* event whose identifier is not the driving identifier never changes it,
\* and after any sequence of cycles it is the timestamp of the most recently
\* processed event with the driving identifier.
C14_TimestampFollowsDriving ==
  [][NonDrivingKeepsTimestamp]_vars /\ []TimestampOfLastDriving

\* ------------------------------------------------------------------ C15
\* C15: every render is preceded by the init of the visualizer, and both are
\* called only in ProcEvents: every call belongs to a cycle, and as long as
\* no ProcEvents has run (InitInternal included) the visualizer was neither
\* initialised nor rendered.
C15_InitBeforeRender ==
  /\ \A n \in CallIdx :
       IsRender(n) => \E m \in CallIdx : m < n /\ IsInit(m)
  /\ \A n \in CallIdx : calls[n].cycle \in 1..cycle
  /\ cycle = 0 => calls = <<>> /\ ~init_
  /\ pc \in {"constructed", "init_failed"} => cycle = 0

\* InitInternal succeeded and the first call on the visualizer is the init
\* made in the first cycle, with a render after it
C15_Witness ==
  /\ pc = "idle" /\ frame_visualizer_
  /\ \E m, n \in CallIdx :
       /\ IsInit(m) /\ IsRender(n) /\ m < n
       /\ calls[m].cycle = 1
       /\ \A k \in CallIdx : k < m => IsGetFrameData(k)

\* ------------------------------------------------------------------ C16
\* positions in sub_meta_events_
KindIdx == 1..2
\* SubscribeEvents is in the drain loop of the m-th kind
Draining(m) ==
  pc = "sub" /\ meta = m /\ sub_meta_events_[m] # ids.vis_driven
\* the cycle waits in the blocking Subscribe of the driving kind
Suspended ==
  pc = "sub" /\ CurrentKind = ids.vis_driven /\ queue[CurrentKind] = <<>>
DrivingAvailable ==
  pc = "sub" /\ CurrentKind = ids.vis_driven /\ queue[CurrentKind] # <<>>
\* the events retrieved are in the order they were published
InArrivalOrder ==
  \A i, j \in 1..Len(events) :
    i < j => events[i].timestamp < events[j].timestamp

C17_LookupsResolved ==
  /\ \A n \in SharedDataNames : gets[n] > 0 => shared[n]
  /\ \A g \in CallIdx : \A k \in 1..Len(calls[g].lookups) :
       shared[calls[g].lookups[k]]
  /\ calls # <<>> => pc \notin {"constructed", "init_failed"}

\* a Cipv event went through both of its Gets, with the radar and fusion
\* stores never resolved
C17_Witness ==
  /\ ~shared["RadarObjectData"] /\ ~shared["FusionSharedData"]
  /\ \E g \in CallIdx :
       /\ IsGetFrameData(g)
       /\ calls[g].lookups = <<"CameraSharedData", "CIPVObjectData">>
       /\ shared["CameraSharedData"] /\ shared["CIPVObjectData"]

\* ------------------------------------------------------------------ C18
\* the first kind, in the order Camera, Motion, Radar, Fusion, Cipv, whose
\* identifier the event carries
KindOf(e) ==
  CASE e.event_id = ids.camera -> "camera"
    [] e.event_id # ids.camera /\ e.event_id = ids.motion -> "motion"
    [] e.event_id \notin {ids.camera, ids.motion}
         /\ e.event_id = ids.radar -> "radar"
    [] e.event_id \notin {ids.camera, ids.motion, ids.radar}
         /\ e.event_id = ids.fusion -> "fusion"
    [] e.event_id \notin {ids.camera, ids.motion, ids.radar, ids.fusion}
         /\ e.event_id = ids.cipv -> "cipv"
    [] OTHER -> "none"
\* the stores a kind reads and the payloads of the content it sets
StoresOfKind(kind) ==
  CASE kind = "camera" -> {"CameraSharedData", "CameraObjectData"}
    [] kind = "radar" -> {"RadarObjectData"}
    [] kind = "fusion" -> {"FusionSharedData"}
    [] kind = "cipv" -> {"CameraSharedData", "CIPVObjectData"}
    [] OTHER -> {}
PayloadsOfKind(kind) ==
  CASE kind \in {"camera", "cipv"} -> {"image", "camera"}
    [] kind = "radar" -> {"radar"}
    [] kind = "fusion" -> {"fusion"}
    [] OTHER -> {}
Payloads == {"image", "camera", "radar", "fusion"}

\* C18: an event is handled by at most one kind-specific branch, the first in
\* the order Camera, Motion, Radar, Fusion, Cipv whose identifier it carries:
\* only the stores of that kind are asked and only its payloads may change
\* (none for Motion, so a motion identifier equal to the radar, fusion or
\* cipv identifier suppresses that kind's update).
C18_OneBranchByPriority ==
  [][Correlated =>
       LET kind == KindOf(CurrentEvent)
       IN  /\ \A k \in 1..Len(ThisCall.lookups) :
                ThisCall.lookups[k] \in StoresOfKind(kind)
           /\ \A f \in Payloads \ PayloadsOfKind(kind) :
                content_'[f] = content_[f]]_vars

\* the motion identifier is the radar identifier; a front-radar event with
\* the radar toggle on went through GetFrameData without a Get and the
\* content has no radar payload
C18_Witness ==
  /\ ids.motion = ids.radar
  /\ FLAGS["show_radar_objects"]
  /\ content_.radar = NoPayload
  /\ \E g \in CallIdx :
       /\ IsGetFrameData(g)
       /\ calls[g].ev.event_id = ids.radar
       /\ calls[g].ev.reserve = "radar_front"
       /\ calls[g].lookups = <<>>

\* ------------------------------------------------------------------ C19
\* the content GetFrameData last left (the initial content before any call)
LastContent ==
  IF \E g \in CallIdx : IsGetFrameData(g)
  THEN calls[CHOOSE g \in CallIdx :
               /\ IsGetFrameData(g)
               /\ \A h \in CallIdx : IsGetFrameData(h) => h <= g].content
  ELSE DefaultContent
OnBus(e) == \E q \in QueueIds : \E k \in 1..Len(queue[q]) : queue[q][k] = e
Retrieved(e) == \E k \in 1..Len(events) : events[k] = e
EverCorrelated(e) == \E n \in CallIdx : calls[n].ev = e

\* C19: when a cycle returns on a key derivation failure, the content keeps
\* the updates made before it (it is what the last GetFrameData left), and
\* the events of the kind that were retrieved and not yet processed are
\* gone: they are not on the bus, and no later cycle retrieves them or hands
\* them to GetFrameData.
C19_AbortKeepsAndDrops ==
  /\ (pc = "idle" /\ status = "ERROR") => content_ = LastContent
  /\ \A e \in dropped :
       ~OnBus(e) /\ ~Retrieved(e) /\ ~EverCorrelated(e)

\* a cycle dropped an event behind a failed key derivation, and a later
\* cycle has drained that kind again
C19_Witness ==
  /\ dropped # {}
  /\ pc = "sub" /\ meta = 2
  /\ CurrentKind = ids.vis_driven

\* ------------------------------------------------------------------ C20
DetectionStoreOf(kind) ==
  IF kind = "camera" THEN "CameraObjectData" ELSE "CIPVObjectData"
PayloadOf(e) ==
  [t |-> e.timestamp,
   key |-> ProduceSharedDataKey(e.timestamp, e.reserve).key]
DetectionToggles ==
  /\ ~FLAGS["show_camera_parsing"]
  /\ FLAGS["show_camera_objects"] \/ FLAGS["show_camera_objects2d"]

\* C20: with the camera-parsing toggle on, a Camera or Cipv event asks the
\* image store and, the image found, the detection store of its kind, and
\* sets the image of the content, yet never sets the camera detections, not
\* even when both payloads are found; the camera detections are set only
\* with the parsing toggle off and the camera-3D or camera-2D toggle on (and
\* then whenever both payloads are found).
C20_ParsingNeverWritesDetections ==
  [][(Correlated /\ KindOf(CurrentEvent) \in {"camera", "cipv"}) =>
       LET c == ThisCall
       IN  /\ FLAGS["show_camera_parsing"] =>
                /\ content_'.camera = content_.camera
                /\ Len(c.lookups) >= 1 /\ c.lookups[1] = "CameraSharedData"
                /\ c.hits[1] =>
                     /\ c.lookups = <<"CameraSharedData",
                                      DetectionStoreOf(KindOf(CurrentEvent))>>
                     /\ content_'.image = PayloadOf(CurrentEvent)
           /\ content_'.camera # content_.camera => DetectionToggles
           /\ (DetectionToggles /\ c.hits = <<TRUE, TRUE>>) =>
                content_'.camera = PayloadOf(CurrentEvent)]_vars

\* with the parsing toggle on, a Cipv event found both of its payloads; the
\* content has its image and no camera detections
C20_Witness ==
  /\ FLAGS["show_camera_parsing"]
  /\ content_.camera = NoPayload
  /\ \E g \in CallIdx :
       /\ IsGetFrameData(g)
       /\ calls[g].ev.event_id = ids.cipv
       /\ calls[g].lookups = <<"CameraSharedData", "CIPVObjectData">>
       /\ calls[g].hits = <<TRUE, TRUE>>
       /\ calls[g].content.image = content_.image
       /\ content_.image.t = calls[g].ev.timestamp

====
